---- MODULE Spec2Model ----
(***************************************************************************)
(* DevBoard Kanban (src/script.js, the variant with tags, due dates and    *)
(* edit-in-place): the in-memory card collection, the localStorage slot    *)
(* and the rendered board, driven by the event handlers of the page.       *)
(*                                                                         *)
(* Text typed by the user (title, description, due date) is a sequence of  *)
(* pieces: a piece is either one whitespace character (WS) or a run of     *)
(* text that neither starts nor ends with whitespace.  Ids, column names   *)
(* and tag names are atomic strings.  An optional value (a property that   *)
(* may be undefined, a variable that may be null) is a sequence of length  *)
(* 0 or 1.                                                                 *)
(***************************************************************************)
EXTENDS Integers, Sequences, FiniteSets, TLC

VARIABLES
  cards,          \* let cards: the in-memory list of cards
  slot,           \* localStorage[STORAGE_KEY]
  board,          \* the DOM of the four .column-cards containers
  modalOpen,      \* modalOverlay has class modal-open
  editingCardId,  \* let editingCardId: Null in add mode
  tagBoxes,       \* the .tag-checkbox inputs: checked and disabled
  last,           \* the event handled last: its inputs and the steps it ran
  nEvents         \* number of events handled since the first init()

vars ==
  <<cards, slot, board, modalOpen, editingCardId, tagBoxes, last, nEvents>>

----------------------------------------------------------------------------
(* Bounds of the exploration *)

MaxEvents == 3

----------------------------------------------------------------------------
(* Values *)

WS == " "

Null == <<>>
Undefined == <<>>
Defined(v) == <<v>>

Range(s) == {s[i] : i \in 1..Len(s)}

(* String.prototype.trim on a text: drop leading and trailing whitespace. *)
RECURSIVE TrimStart(_)
TrimStart(s) ==
  IF s # <<>> /\ Head(s) = WS THEN TrimStart(Tail(s)) ELSE s

RECURSIVE TrimEnd(_)
TrimEnd(s) ==
  IF s # <<>> /\ s[Len(s)] = WS THEN TrimEnd(SubSeq(s, 1, Len(s) - 1)) ELSE s

Trim(s) == TrimEnd(TrimStart(s))

(* Reading a property of an object: undefined when the object has no such
   own property. Only dueDate is ever absent or undefined in a card. *)
Get(card, k) == IF k \in DOMAIN card THEN card[k] ELSE Undefined

(* obj[k] = v on a copy of obj: adds the property when it is missing. *)
SetField(card, k, v) ==
  [x \in (DOMAIN card) \cup {k} |-> IF x = k THEN v ELSE card[x]]

----------------------------------------------------------------------------
(* Constants of the program *)

COLUMNS == <<"to-learn", "in-progress", "blocked", "completed">>

DEFAULT_CARDS ==
  << [id |-> "1", title |-> <<"Setup Development Environment">>,
      description |-> <<"Install IDE, Node, and tooling.">>,
      column |-> "completed", tags |-> <<"DevOps">>],
     [id |-> "2", title |-> <<"Build Kanban Board">>,
      description |-> <<"Create this board with drag and drop.">>,
      column |-> "completed", tags |-> <<"Front-End">>],
     [id |-> "3", title |-> <<"Learn API Integration">>,
      description |-> <<"REST and async patterns.">>,
      column |-> "completed", tags |-> <<"Back-End">>],
     [id |-> "4", title |-> <<"Deploy to GitHub Pages">>,
      description |-> <<"Make board accessible online">>,
      column |-> "completed", tags |-> <<"DevOps">>],
     [id |-> "10", title |-> <<"Week 2: API Integration">>,
      description |-> <<"Learn to fetch external data">>,
      column |-> "to-learn", tags |-> <<"Back-End">>],
     [id |-> "6", title |-> <<"Feature - Card Tags">>,
      description |-> <<"Categorize cards with tags">>,
      column |-> "complete", tags |-> <<"Front-End">>],
     [id |-> "7", title |-> <<"Feature - due dates">>,
      description |-> <<"Insights when cards are due">>,
      column |-> "to-learn", tags |-> <<"Front-End">>],
     [id |-> "8", title |-> <<"Feature - Priority levels">>,
      description |-> <<"Prioritize cards based on importance">>,
      column |-> "to-learn", tags |-> <<"Front-End">>],
     [id |-> "9", title |-> <<"Feature - Search filter">>,
      description |-> <<"Search cards by title or description">>,
      column |-> "to-learn", tags |-> <<"Front-End">>] >>

(* The .tag-checkbox inputs of the form, in document order. *)
TagCheckboxes == <<"Front-End", "Back-End", "DevOps">>

----------------------------------------------------------------------------
(* Inputs of the handlers, drawn from small sets *)

(* What generateId() reads: Date.now() and the base-36 digits of the
   fraction Math.random() returns (its toString(36).slice(2)).  Nothing
   keeps two calls from reading the same pair. *)
IdInputs ==
  { [now |-> 1700000000, digits |-> "4fzyo82mvyr"],
    [now |-> 1700000001, digits |-> "k3x9"] }

(* What the form holds when it is submitted. *)
FormInputs ==
  { [title |-> <<>>, description |-> <<"notes">>, checked |-> {},
     due |-> <<>>],
    [title |-> <<WS, WS>>, description |-> <<>>, checked |-> {"DevOps"},
     due |-> <<"2099-01-01">>],
    [title |-> <<"Learn Rust">>, description |-> <<>>,
     checked |-> {"Back-End"}, due |-> <<>>],
    [title |-> <<WS, "Learn Go", WS>>, description |-> <<"notes", WS>>,
     checked |-> {"Front-End", "DevOps"}, due |-> <<"2099-01-01">>],
    [title |-> <<"Read docs">>, description |-> <<WS>>, checked |-> {},
     due |-> <<"2020-01-31">>],
    [title |-> <<"Learn Rust">>, description |-> <<>>,
     checked |-> {"Front-End", "Back-End", "DevOps"}, due |-> <<>>] }

(* data-column of the drop target's .column, or null outside a column. *)
ColumnInputs == {Defined(COLUMNS[i]) : i \in 1..Len(COLUMNS)}

(* Seed cards the user acts on; cards added later are always acted on. *)
SeedTargets == {"1", "6"}

SeedIds == {DEFAULT_CARDS[i].id : i \in 1..Len(DEFAULT_CARDS)}

(* The cards the user acts on. *)
TargetIds(cs) == SeedTargets \cup ({cs[i].id : i \in 1..Len(cs)} \ SeedIds)

(* A drop: the data-column of the target's .column (null outside a column)
   and dataTransfer.getData('text/plain'). *)
DropInputs(cs) ==
  (ColumnInputs \X TargetIds(cs))
    \cup { <<Defined("archive"), "1">>, <<Null, "1">>,
           <<Defined("blocked"), "">>, <<Defined("blocked"), "no-such-card">> }

----------------------------------------------------------------------------
(* Ids *)

Digits36 ==
  << "0", "1", "2", "3", "4", "5", "6", "7", "8", "9", "a", "b", "c", "d",
     "e", "f", "g", "h", "i", "j", "k", "l", "m", "n", "o", "p", "q", "r",
     "s", "t", "u", "v", "w", "x", "y", "z" >>

(* Number.prototype.toString(36) of a non-negative integer. *)
RECURSIVE ToBase36(_)
ToBase36(n) ==
  IF n < 36 THEN Digits36[n + 1]
  ELSE ToBase36(n \div 36) \o Digits36[(n % 36) + 1]

(* now is Date.now(), digits is Math.random().toString(36).slice(2). *)
generateId(now, digits) == ToBase36(now) \o digits

----------------------------------------------------------------------------
(* Storage *)

(* The slot: absent (getItem returns null), or a text.  A text is the empty
   string, a text JSON.parse rejects, or the JSON text of a value; of a
   value that is not an array only that fact is kept. *)
Absent == [kind |-> "absent"]

(* Faulty variant of StringifyObject: only the properties of the schema
   without due dates are written. *)
StringifyObjectNoDueDate(card) ==
  [k \in (DOMAIN card) \ {"dueDate"} |-> card[k]]

(* JSON.stringify of one card: a property whose value is undefined is
   left out, the others are written as own properties of the object. *)
StringifyObject(card) ==
  [k \in {x \in DOMAIN card : ~(x = "dueDate" /\ card[x] = Undefined)} |->
     IF k = "dueDate" THEN card[k][1] ELSE card[k]]

(* The JSON value null, as an element of a stored array and, once parsed,
   of the collection.  It is the only element kept that is not an object. *)
JsonNull == [null |-> TRUE]

StringifyValue(v) == IF v = JsonNull THEN JsonNull ELSE StringifyObject(v)

JSONstringify(cs) ==
  [kind |-> "json", type |-> "array",
   items |-> [i \in 1..Len(cs) |-> StringifyValue(cs[i])]]

(* JSON.parse of one object of the text. *)
ParseObject(o) ==
  [k \in DOMAIN o |-> IF k = "dueDate" THEN Defined(o[k]) ELSE o[k]]

ParseValue(v) == IF v = JsonNull THEN JsonNull ELSE ParseObject(v)

JSONparse(text) == [i \in 1..Len(text.items) |-> ParseValue(text.items[i])]

(* Faulty variant of loadFromStorage: an empty array is returned as it
   is. *)
loadFromStorageKeepsEmpty(s, readThrows) ==
  IF readThrows THEN DEFAULT_CARDS
  ELSE IF s.kind \in {"absent", "empty"} THEN DEFAULT_CARDS
  ELSE IF s.kind = "malformed" THEN DEFAULT_CARDS
  ELSE IF s.type # "array" THEN DEFAULT_CARDS
  ELSE JSONparse(s)

(* Faulty variant of loadFromStorage: the Array.isArray test is inverted. *)
loadFromStorageInverted(s, readThrows) ==
  IF readThrows THEN DEFAULT_CARDS
  ELSE IF s.kind \in {"absent", "empty"} THEN DEFAULT_CARDS
  ELSE IF s.kind = "malformed" THEN DEFAULT_CARDS
  ELSE IF s.type = "array" THEN DEFAULT_CARDS
  ELSE IF Len(s.items) = 0 THEN DEFAULT_CARDS
  ELSE JSONparse(s)

loadFromStorage(s, readThrows) ==
  IF readThrows THEN DEFAULT_CARDS
  ELSE IF s.kind \in {"absent", "empty"} THEN DEFAULT_CARDS
  ELSE IF s.kind = "malformed" THEN DEFAULT_CARDS
  ELSE IF s.type # "array" THEN DEFAULT_CARDS
  ELSE IF Len(s.items) = 0 THEN DEFAULT_CARDS
  ELSE JSONparse(s)

(* Faulty variant of saveToStorage: when the collection has grown, only
   its last card is written, after what the slot holds. *)
saveToStorageAppendsLast(cs, s, writeThrows) ==
  IF writeThrows THEN s
  ELSE IF s.kind = "json" /\ s.type = "array" /\ Len(cs) > Len(s.items)
  THEN [kind |-> "json", type |-> "array",
        items |-> Append(s.items, StringifyValue(cs[Len(cs)]))]
  ELSE JSONstringify(cs)

(* Faulty variant of saveToStorage: the slot is removed before it is
   written, so a write that throws leaves it empty. *)
saveToStorageClearsFirst(cs, s, writeThrows) ==
  IF writeThrows THEN Absent ELSE JSONstringify(cs)

(* The slot after saveToStorage() of cs, s being the slot before. *)
saveToStorage(cs, s, writeThrows) ==
  IF writeThrows THEN s ELSE JSONstringify(cs)

(* How the two storage calls end, as recorded in last.steps. *)
LoadStep(readThrows) == IF readThrows THEN "loadFailed" ELSE "load"

SaveStep(writeThrows) == IF writeThrows THEN "saveFailed" ELSE "save"

----------------------------------------------------------------------------
(* Rendering *)

(* What a card's element shows: data-card-id, title, tag spans,
   description and the due date the indicator is computed from. *)
createCardElement(card) ==
  [cardId |-> Get(card, "id"), title |-> Get(card, "title"),
   tags |-> Get(card, "tags"), description |-> Get(card, "description"),
   due |-> Get(card, "dueDate")]

RECURSIVE ColumnElements(_, _)
ColumnElements(cs, col) ==
  IF cs = <<>> THEN <<>>
  ELSE (IF "column" \in DOMAIN Head(cs) /\ Head(cs).column = col
        THEN <<createCardElement(Head(cs))>>
        ELSE <<>>) \o ColumnElements(Tail(cs), col)

(* cards.forEach reads card.column of every element: of null that is a
   TypeError, which nothing catches, and the loop ends there. *)
RenderThrows(cs) == \E i \in 1..Len(cs) : cs[i] = JsonNull

(* The elements the loop reaches. *)
RenderReach(cs) ==
  IF RenderThrows(cs)
  THEN SubSeq(cs, 1, (CHOOSE i \in 1..Len(cs) :
                        cs[i] = JsonNull
                          /\ \A j \in 1..(i - 1) : cs[j] # JsonNull) - 1)
  ELSE cs

(* The containers are emptied, then filled card by card.  A card whose
   column has no container is skipped. *)
renderBoard(cs) ==
  [col \in Range(COLUMNS) |-> ColumnElements(RenderReach(cs), col)]

RenderStep(cs) == IF RenderThrows(cs) THEN "renderThrew" ELSE "render"

RenderedIds ==
  UNION {{board[col][i].cardId : i \in 1..Len(board[col])} :
           col \in Range(COLUMNS)}

----------------------------------------------------------------------------
(* Operations on the collection *)

(* cards.find(c => c.id === cardId): the index of the first card with that
   id, 0 when there is none. *)
FindIndex(cs, cardId) ==
  IF \E i \in 1..Len(cs) : cs[i].id = cardId
  THEN CHOOSE i \in 1..Len(cs) :
         cs[i].id = cardId /\ \A j \in 1..(i - 1) : cs[j].id # cardId
  ELSE 0

(* The values of the checked checkboxes, in document order. *)
CheckedTags(checked) == SelectSeq(TagCheckboxes, LAMBDA t : t \in checked)

(* Faulty variant of TitleMissing: if (title == null) return, which no
   string satisfies. *)
TitleMissingNullOnly(title) == FALSE

(* if (!title) return *)
TitleMissing(title) == title = <<>>

(* Faulty variant of TooManyTags: tags.length > 3. *)
TooManyTagsOffByOne(tags) == Len(tags) > 3

(* if (tags.length > 2) { alert(...); return } *)
TooManyTags(tags) == Len(tags) > 2

(* dueDate || undefined *)
OrUndefined(text) == IF text = <<>> THEN Undefined ELSE Defined(text)

(* The object literal of add mode. *)
NewCard(id, title, description, tags, dueDate) ==
  [id |-> id, title |-> title, description |-> description, tags |-> tags,
   column |-> "to-learn", dueDate |-> OrUndefined(dueDate)]

(* Faulty variant of PushCard: cards.unshift(newCard). *)
PushCardFirst(cs, card) == <<card>> \o cs

(* cards.push(newCard) *)
PushCard(cs, card) == Append(cs, card)

(* Faulty variant of EditCard: the card is replaced by a new card object,
   which resets its column. *)
EditCardAsNew(card, title, description, tags, dueDate) ==
  NewCard(card.id, title, description, tags, dueDate)

(* The four assignments of edit mode. *)
EditCard(card, title, description, tags, dueDate) ==
  SetField(SetField(SetField(SetField(card, "title", title),
                             "description", description),
                    "tags", tags),
           "dueDate", OrUndefined(dueDate))

(* cards.filter(c => c.id !== cardId) *)
RemoveCard(cs, cardId) == SelectSeq(cs, LAMBDA c : c.id # cardId)

(* Faulty variant of ColumnRejected: only !columnId. *)
ColumnRejectedNullOnly(columnId) == columnId = Null

(* !columnId || !COLUMNS.includes(columnId) *)
ColumnRejected(columnId) ==
  columnId = Null \/ columnId[1] \notin Range(COLUMNS)

(* Faulty variant of MoveCard: the card is rebuilt from its required fields. *)
MoveCardRebuilt(card, column) ==
  [id |-> card.id, title |-> card.title, description |-> card.description,
   tags |-> card.tags, column |-> column]

(* card.column = columnId *)
MoveCard(card, column) == SetField(card, "column", column)

----------------------------------------------------------------------------
(* The tag checkboxes of the modal *)

(* The checkboxes as the page's markup has them: none checked, none
   disabled. *)
HtmlTagBoxes ==
  [t \in Range(TagCheckboxes) |-> [checked |-> FALSE, disabled |-> FALSE]]

(* forEach(cb => { cb.checked = false; }) *)
Unchecked(boxes) ==
  [t \in DOMAIN boxes |-> [boxes[t] EXCEPT !.checked = FALSE]]

(* forEach(cb => { cb.checked = Array.isArray(card.tags) &&
   card.tags.includes(cb.value); }) *)
CheckedFrom(card) ==
  [t \in Range(TagCheckboxes) |->
     [checked |-> t \in Range(Get(card, "tags")), disabled |-> FALSE]]

CheckedBoxes(boxes) == {t \in DOMAIN boxes : boxes[t].checked}

(* Faulty variant of updateTagCheckboxes: checked.length > 2. *)
updateTagCheckboxesOffByOne(boxes) ==
  [t \in DOMAIN boxes |->
     [boxes[t] EXCEPT
        !.disabled = ~boxes[t].checked
                       /\ Cardinality(CheckedBoxes(boxes)) > 2]]

(* An unchecked box is disabled when 2 or more are checked; every other
   box is enabled. *)
updateTagCheckboxes(boxes) ==
  [t \in DOMAIN boxes |->
     [boxes[t] EXCEPT
        !.disabled = ~boxes[t].checked
                       /\ Cardinality(CheckedBoxes(boxes)) >= 2]]

----------------------------------------------------------------------------
(* State after init() *)

Init ==
  \E readThrows \in BOOLEAN, writeThrows \in BOOLEAN :
    /\ cards = loadFromStorage(Absent, readThrows)
    /\ slot = saveToStorage(cards, Absent, writeThrows)
    /\ board = renderBoard(cards)
    /\ modalOpen = FALSE
    /\ editingCardId = Null
    /\ tagBoxes = updateTagCheckboxes(HtmlTagBoxes)
    /\ last = [op |-> "init",
               steps |-> <<LoadStep(readThrows), SaveStep(writeThrows),
                           RenderStep(cards)>>]
    /\ nEvents = 0

----------------------------------------------------------------------------
(* Event handlers *)

(* A reload of the page: init() runs again on the slot as it is. *)
PageLoad(readThrows, writeThrows) ==
  /\ cards' = loadFromStorage(slot, readThrows)
  /\ slot' = saveToStorage(cards', slot, writeThrows)
  /\ board' = renderBoard(cards')
  /\ modalOpen' = FALSE
  /\ editingCardId' = Null
  /\ tagBoxes' = updateTagCheckboxes(HtmlTagBoxes)
  /\ last' = [op |-> "init",
              steps |-> <<LoadStep(readThrows), SaveStep(writeThrows),
                          RenderStep(cards')>>]

(* Click on .add-card-btn *)
openModal ==
  /\ editingCardId' = Null
  /\ tagBoxes' = updateTagCheckboxes(Unchecked(tagBoxes))
  /\ modalOpen' = TRUE
  /\ last' = [op |-> "openModal", steps |-> <<>>]
  /\ UNCHANGED <<cards, slot, board>>

(* Click on the edit button of a rendered card *)
openEditModal(cardId) ==
  /\ cardId \in RenderedIds
  /\ IF FindIndex(cards, cardId) = 0
     THEN UNCHANGED <<editingCardId, modalOpen, tagBoxes>>
     ELSE /\ editingCardId' = Defined(cardId)
          /\ modalOpen' = TRUE
          /\ tagBoxes' = updateTagCheckboxes(
                           CheckedFrom(cards[FindIndex(cards, cardId)]))
  /\ last' = [op |-> "openEditModal", cardId |-> cardId, steps |-> <<>>]
  /\ UNCHANGED <<cards, slot, board>>

(* Faulty variant of closeModal: editingCardId is not reset. *)
closeModalKeepsEditing ==
  /\ modalOpen' = FALSE
  /\ last' = [op |-> "closeModal", steps |-> <<>>]
  /\ tagBoxes' = updateTagCheckboxes(Unchecked(tagBoxes))
  /\ UNCHANGED <<cards, slot, board, editingCardId>>

(* Cancel, click on the overlay, Escape *)
closeModal ==
  /\ modalOpen' = FALSE
  /\ editingCardId' = Null
  /\ tagBoxes' = updateTagCheckboxes(Unchecked(tagBoxes))
  /\ last' = [op |-> "closeModal", steps |-> <<>>]
  /\ UNCHANGED <<cards, slot, board>>

(* Faulty variant of handleAddCardSubmit: the edit branch does not return,
   so an edit goes on to push a new card as well. *)
handleAddCardSubmitNoReturn(form, draw, writeThrows) ==
  LET title == Trim(form.title)
      description == Trim(form.description)
      tags == CheckedTags(form.checked)
      dueDate == Trim(form.due)
      event == [op |-> "submit", form |-> form, editing |-> editingCardId]
      i == IF editingCardId # Null THEN FindIndex(cards, editingCardId[1])
           ELSE 0
      edited == IF i # 0
                THEN [cards EXCEPT
                        ![i] = EditCard(cards[i], title, description, tags,
                                        dueDate)]
                ELSE cards
  IN
  IF TitleMissing(title) \/ TooManyTags(tags)
  THEN /\ last' = event @@ [steps |-> <<>>]
       /\ UNCHANGED <<cards, slot, board, modalOpen, editingCardId, tagBoxes>>
  ELSE /\ cards' = PushCard(edited,
                            NewCard(generateId(draw.now, draw.digits), title,
                                    description, tags, dueDate))
       /\ slot' = saveToStorage(cards', slot, writeThrows)
       /\ board' = renderBoard(cards')
       /\ modalOpen' = FALSE
       /\ editingCardId' = Null
       /\ tagBoxes' = updateTagCheckboxes(Unchecked(tagBoxes))
       /\ last' = event @@ [steps |-> <<"mutate", SaveStep(writeThrows),
                                       "render", "closeModal">>]

(* Submit of the form *)
handleAddCardSubmit(form, draw, writeThrows) ==
  LET title == Trim(form.title)
      description == Trim(form.description)
      tags == CheckedTags(form.checked)
      dueDate == Trim(form.due)
      event == [op |-> "submit", form |-> form, editing |-> editingCardId]
  IN
  IF TitleMissing(title) \/ TooManyTags(tags)
  THEN /\ last' = event @@ [steps |-> <<>>]
       /\ UNCHANGED <<cards, slot, board, modalOpen, editingCardId, tagBoxes>>
  ELSE IF editingCardId # Null
  THEN LET i == FindIndex(cards, editingCardId[1]) IN
       IF i # 0
       THEN /\ cards' = [cards EXCEPT
                 ![i] = EditCard(cards[i], title, description, tags, dueDate)]
            /\ slot' = saveToStorage(cards', slot, writeThrows)
            /\ board' = renderBoard(cards')
            /\ modalOpen' = FALSE
            /\ editingCardId' = Null
            /\ tagBoxes' = updateTagCheckboxes(Unchecked(tagBoxes))
            /\ last' = event @@ [steps |-> <<"mutate", SaveStep(writeThrows),
                                            "render", "closeModal">>]
       ELSE /\ modalOpen' = FALSE
            /\ editingCardId' = Null
            /\ tagBoxes' = updateTagCheckboxes(Unchecked(tagBoxes))
            /\ last' = event @@ [steps |-> <<"closeModal">>]
            /\ UNCHANGED <<cards, slot, board>>
  ELSE /\ cards' = PushCard(cards, NewCard(generateId(draw.now, draw.digits), title,
                                           description, tags, dueDate))
       /\ slot' = saveToStorage(cards', slot, writeThrows)
       /\ board' = renderBoard(cards')
       /\ modalOpen' = FALSE
       /\ editingCardId' = Null
       /\ tagBoxes' = updateTagCheckboxes(Unchecked(tagBoxes))
       /\ last' = event @@ [steps |-> <<"mutate", SaveStep(writeThrows),
                                       "render", "closeModal">>]

(* Click on the modal's delete button; confirmed is what confirm() returns *)
modalDeleteClick(confirmed, writeThrows) ==
  IF editingCardId # Null /\ confirmed
  THEN /\ cards' = RemoveCard(cards, editingCardId[1])
       /\ slot' = saveToStorage(cards', slot, writeThrows)
       /\ board' = renderBoard(cards')
       /\ modalOpen' = FALSE
       /\ editingCardId' = Null
       /\ tagBoxes' = updateTagCheckboxes(Unchecked(tagBoxes))
       /\ last' = [op |-> "delete", cardId |-> editingCardId[1],
                   steps |-> <<"mutate", SaveStep(writeThrows), "render",
                               "closeModal">>]
  ELSE /\ last' = [op |-> "delete", cardId |-> "", steps |-> <<>>]
       /\ UNCHANGED <<cards, slot, board, modalOpen, editingCardId, tagBoxes>>

(* Faulty variant of handleDrop: the board is rendered before the card is
   moved. *)
handleDropRendersFirst(columnId, cardId, writeThrows) ==
  LET event == [op |-> "drop", columnId |-> columnId, cardId |-> cardId]
      i == FindIndex(cards, cardId)
  IN
  IF ColumnRejected(columnId) \/ cardId = "" \/ i = 0
  THEN /\ last' = event @@ [steps |-> <<>>]
       /\ UNCHANGED <<cards, slot, board, modalOpen, editingCardId, tagBoxes>>
  ELSE /\ board' = renderBoard(cards)
       /\ cards' = [cards EXCEPT ![i] = MoveCard(cards[i], columnId[1])]
       /\ slot' = saveToStorage(cards', slot, writeThrows)
       /\ last' = event @@ [steps |-> <<"mutate", SaveStep(writeThrows),
                                       "render">>]
       /\ UNCHANGED <<modalOpen, editingCardId, tagBoxes>>

(* Drop on the board *)
handleDrop(columnId, cardId, writeThrows) ==
  LET event == [op |-> "drop", columnId |-> columnId, cardId |-> cardId]
      i == FindIndex(cards, cardId)
  IN
  IF ColumnRejected(columnId) \/ cardId = "" \/ i = 0
  THEN /\ last' = event @@ [steps |-> <<>>]
       /\ UNCHANGED <<cards, slot, board, modalOpen, editingCardId, tagBoxes>>
  ELSE /\ cards' = [cards EXCEPT ![i] = MoveCard(cards[i], columnId[1])]
       /\ slot' = saveToStorage(cards', slot, writeThrows)
       /\ board' = renderBoard(cards')
       /\ last' = event @@ [steps |-> <<"mutate", SaveStep(writeThrows),
                                       "render">>]
       /\ UNCHANGED <<modalOpen, editingCardId, tagBoxes>>

(* Events are handled one at a time, each to completion. *)
Handle(handler) ==
  /\ nEvents < MaxEvents
  /\ nEvents' = nEvents + 1
  /\ handler

Next ==
  \/ \E readThrows \in BOOLEAN, writeThrows \in BOOLEAN :
       Handle(PageLoad(readThrows, writeThrows))
  \/ Handle(openModal)
  \/ \E cardId \in TargetIds(cards) : Handle(openEditModal(cardId))
  \/ Handle(closeModal)
  \/ \E form \in FormInputs, draw \in IdInputs, writeThrows \in BOOLEAN :
       Handle(handleAddCardSubmit(form, draw, writeThrows))
  \/ \E confirmed \in BOOLEAN, writeThrows \in BOOLEAN :
       Handle(modalDeleteClick(confirmed, writeThrows))
  \/ \E drop \in DropInputs(cards), writeThrows \in BOOLEAN :
       Handle(handleDrop(drop[1], drop[2], writeThrows))

Spec == Init /\ [][Next]_vars

----------------------------------------------------------------------------
(* The form as the user fills it through the modal *)

(* Submits that one exploration handles.  The checkbox events need no
   bound: they move among finitely many states. *)
MaxSubmits == 1

(* change on a .tag-checkbox: the user toggles a box of the open modal,
   which a disabled box does not allow, and updateTagCheckboxes runs. *)
tagChange(tag) ==
  /\ modalOpen
  /\ ~tagBoxes[tag].disabled
  /\ tagBoxes' = updateTagCheckboxes(
                    [tagBoxes EXCEPT ![tag].checked = ~tagBoxes[tag].checked])
  /\ last' = [op |-> "tagChange", tag |-> tag, steps |-> <<>>]
  /\ UNCHANGED <<cards, slot, board, modalOpen, editingCardId>>

(* Submit of the open modal: the checked tags are the checked boxes. *)
submitFromModal(form, draw, writeThrows) ==
  /\ modalOpen
  /\ nEvents < MaxSubmits
  /\ nEvents' = nEvents + 1
  /\ handleAddCardSubmit([form EXCEPT !.checked = CheckedBoxes(tagBoxes)],
                         draw, writeThrows)

NextTags ==
  \/ openModal /\ UNCHANGED nEvents
  \/ \E cardId \in TargetIds(cards) :
       openEditModal(cardId) /\ UNCHANGED nEvents
  \/ closeModal /\ UNCHANGED nEvents
  \/ \E tag \in Range(TagCheckboxes) : tagChange(tag) /\ UNCHANGED nEvents
  \/ \E form \in FormInputs, draw \in IdInputs :
       submitFromModal(form, draw, FALSE)

SpecTags == Init /\ [][NextTags]_vars

----------------------------------------------------------------------------
(* The slot as other code of the origin may leave it *)

(* Texts found in the slot at a page load: none, the empty string, a text
   JSON.parse rejects, the JSON of a value that is no array, of the empty
   array, and of arrays whose one element is null, an object without id and
   title, a card with three tags, a card in an unknown column, and a
   well-formed card. *)
StoredTexts ==
  { Absent,
    [kind |-> "empty"],
    [kind |-> "malformed"],
    [kind |-> "json", type |-> "object"],
    [kind |-> "json", type |-> "array", items |-> <<>>],
    [kind |-> "json", type |-> "array", items |-> <<JsonNull>>],
    [kind |-> "json", type |-> "array",
     items |-> << [column |-> "to-learn", description |-> <<"untitled">>] >>],
    [kind |-> "json", type |-> "array",
     items |-> << [id |-> "a1", title |-> <<"Tagged">>, description |-> <<>>,
                   column |-> "blocked",
                   tags |-> <<"Front-End", "Back-End", "DevOps">>] >>],
    [kind |-> "json", type |-> "array",
     items |-> << [id |-> "a2", title |-> <<"Archived">>, description |-> <<>>,
                   column |-> "archive", tags |-> <<>>] >>],
    [kind |-> "json", type |-> "array",
     items |-> << [id |-> "a3", title |-> <<"Learn Rust">>,
                   description |-> <<>>, column |-> "in-progress",
                   tags |-> <<"Back-End">>, dueDate |-> <<"2099-01-01">>] >>] }

(* localStorage is shared by the origin: the slot is rewritten from outside
   this page (another tab, an earlier version, the developer tools). *)
SlotReplaced(text) ==
  /\ slot' = text
  /\ last' = [op |-> "storage", steps |-> <<>>]
  /\ UNCHANGED <<cards, board, modalOpen, editingCardId, tagBoxes>>

NextStored ==
  \/ \E text \in StoredTexts : Handle(SlotReplaced(text))
  \/ \E readThrows \in BOOLEAN, writeThrows \in BOOLEAN :
       Handle(PageLoad(readThrows, writeThrows))

SpecStored == Init /\ [][NextStored]_vars

----------------------------------------------------------------------------
(* Vocabulary of the properties *)

ValidColumns == {"to-learn", "in-progress", "blocked", "completed"}

CardFields == {"id", "title", "description", "column", "tags", "dueDate"}

Ids(cs) == {cs[i].id : i \in 1..Len(cs)}

(* Two cards agree on every field; an absent dueDate and an undefined one
   are the same: no due date. *)
SameFields(a, b) == \A k \in CardFields : Get(a, k) = Get(b, k)

(* Two collections are equal in ids, fields and order. *)
SameCards(as, bs) ==
  /\ Len(as) = Len(bs)
  /\ \A i \in 1..Len(as) : SameFields(as[i], bs[i])

Ran(step, event) == step \in Range(event.steps)

----------------------------------------------------------------------------
(* A session on a board of one card *)

(* The slot as a session left it that had a single card. *)
OneCardText ==
  [kind |-> "json", type |-> "array",
   items |-> << [id |-> "a3", title |-> <<"Learn Rust">>,
                 description |-> <<>>, column |-> "in-progress",
                 tags |-> <<"Back-End">>, dueDate |-> <<"2099-01-01">>] >>]

(* init() on that slot. *)
InitOneCard ==
  \E writeThrows \in BOOLEAN :
    /\ cards = loadFromStorage(OneCardText, FALSE)
    /\ slot = saveToStorage(cards, OneCardText, writeThrows)
    /\ board = renderBoard(cards)
    /\ modalOpen = FALSE
    /\ editingCardId = Null
    /\ tagBoxes = updateTagCheckboxes(HtmlTagBoxes)
    /\ last = [op |-> "init",
               steps |-> <<"load", SaveStep(writeThrows), RenderStep(cards)>>]
    /\ nEvents = 0

SpecOneCard == InitOneCard /\ [][Next]_vars

----------------------------------------------------------------------------
(* The due date indicator *)

(* Time is counted in hours since the epoch, in UTC; every instant and
   every UTC offset of the inputs is a whole hour.  1000 * 60 * 60 * 24 ms
   is one day. *)
HoursPerDay == 24

(* The day, counted from 1970-01-01, that a YYYY-MM-DD text names. *)
ISODays ==
  ("2024-03-08" :> 19790) @@ ("2024-03-09" :> 19791) @@
  ("2024-03-10" :> 19792) @@ ("2024-03-11" :> 19793) @@
  ("2024-03-12" :> 19794)

NaN == Null

(* new Date(dueDateStr): a date-only ISO text is read as 00:00 of that day
   in UTC; a text that is no date gives an invalid Date. *)
NewDate(dueDateStr) ==
  IF Len(dueDateStr) = 1 /\ dueDateStr[1] \in DOMAIN ISODays
  THEN Defined(ISODays[dueDateStr[1]] * HoursPerDay)
  ELSE NaN

(* date.setHours(0, 0, 0, 0): 00:00 local time of the local day the instant
   falls in, where local time is UTC + offset. *)
SetHoursZero(instant, offset) ==
  ((instant + offset) \div HoursPerDay) * HoursPerDay - offset

(* Math.round(hours / 24): floor(x + 0.5). *)
MathRoundDays(hours) == (2 * hours + HoursPerDay) \div (2 * HoursPerDay)

(* now is what new Date() returns, offset the UTC offset of the local zone. *)
getDueDateLabel(dueDateStr, now, offset) ==
  IF dueDateStr = <<>> \/ NewDate(dueDateStr) = NaN THEN ""
  ELSE LET today == SetHoursZero(now, offset)
           due == SetHoursZero(NewDate(dueDateStr)[1], offset)
           diffDays == MathRoundDays(due - today)
           abs == -diffDays
       IN IF diffDays > 0
          THEN "Due in " \o ToString(diffDays) \o " day"
                 \o (IF diffDays = 1 THEN "" ELSE "s")
          ELSE IF diffDays = 0 THEN "Due today"
          ELSE IF abs = 1 THEN "1 day overdue"
          ELSE ToString(abs) \o " days overdue"

(* card.dueDate && String(card.dueDate).trim() *)
DueDateStr(card) ==
  IF Get(card, "dueDate") = Undefined THEN <<>>
  ELSE Trim(Get(card, "dueDate")[1])

(* The card element with its indicator, as built at instant now in a zone
   at that offset: dueLabel is the indicator's text ("" for none), overdue
   says whether the element has the class card-overdue. *)
createCardElementAt(card, now, offset) ==
  LET dueDateStr == DueDateStr(card)
      dueLabel == getDueDateLabel(dueDateStr, now, offset)
  IN createCardElement(card) @@
       [dueLabel |-> dueLabel,
        overdue |-> /\ dueLabel # ""
                    /\ SetHoursZero(NewDate(dueDateStr)[1], offset)
                         < SetHoursZero(now, offset)]

renderBoardAt(cs, now, offset) ==
  [col \in Range(COLUMNS) |->
     [k \in 1..Len(renderBoard(cs)[col]) |->
        createCardElementAt(
          SelectSeq(RenderReach(cs),
                    LAMBDA c : "column" \in DOMAIN c /\ c.column = col)[k],
          now, offset)]]

(* Instants of 2024-03-10 (UTC) and zones from UTC-8 to UTC+9. *)
NowInputs == {19792 * HoursPerDay + h : h \in {0, 5, 12, 19, 23}}

OffsetInputs == {-8, -5, 0, 1, 9}

(* What a stored card has for a due date: nothing, a text that is no date,
   or a day around the day of the instants. *)
DueInputs ==
  {Undefined, Defined(<<"soon">>)}
    \cup {Defined(<<d>>) : d \in DOMAIN ISODays}

DueCard(dueDate) ==
  [id |-> "d1", title |-> <<"Learn Rust">>, description |-> <<>>,
   column |-> "to-learn", tags |-> <<"Back-End">>, dueDate |-> dueDate]

(* A page load at an instant, in a zone, with the times made explicit. *)
PageLoadAt(now, offset) ==
  /\ cards' = loadFromStorage(slot, FALSE)
  /\ slot' = saveToStorage(cards', slot, FALSE)
  /\ board' = renderBoardAt(cards', now, offset)
  /\ last' = [op |-> "init", now |-> now, offset |-> offset,
              steps |-> <<"load", "save", "render">>]
  /\ UNCHANGED <<modalOpen, editingCardId, tagBoxes, nEvents>>

(* The slot holds one card, written by an earlier session; the page was
   loaded at some instant in some zone. *)
InitDue ==
  \E dueDate \in DueInputs, now \in NowInputs, offset \in OffsetInputs :
    /\ cards = <<DueCard(dueDate)>>
    /\ slot = JSONstringify(cards)
    /\ board = renderBoardAt(cards, now, offset)
    /\ modalOpen = FALSE
    /\ editingCardId = Null
    /\ tagBoxes = updateTagCheckboxes(HtmlTagBoxes)
    /\ last = [op |-> "init", now |-> now, offset |-> offset,
               steps |-> <<"load", "save", "render">>]
    /\ nEvents = 0

NextDue ==
  \E now \in NowInputs, offset \in OffsetInputs : PageLoadAt(now, offset)

SpecDue == InitDue /\ [][NextDue]_vars

----------------------------------------------------------------------------
(* C1: every card of the in-memory collection has a column that is one of
   to-learn, in-progress, blocked, completed, in every state reachable from
   init with an absent slot. *)
C1_ColumnAlwaysValid ==
  \A i \in 1..Len(cards) : cards[i].column \in ValidColumns

(* C2: no two cards of the collection have the same id; in particular an
   added card's id differs from the id of every card already there. *)
C2_IdsUnique ==
  \A i, j \in 1..Len(cards) : i # j => cards[i].id # cards[j].id

(* A form that passes, or fails, the validation the claims name. *)
ValidForm(form) ==
  Trim(form.title) # <<>> /\ Cardinality(form.checked) <= 2

InvalidForm(form) ==
  Trim(form.title) = <<>> \/ Cardinality(form.checked) >= 3

(* The step handles a valid submit in add mode. *)
ValidAddStep ==
  last'.op = "submit" /\ last'.editing = Null /\ ValidForm(last'.form)

(* What every add leaves in place and what it appends, but for the new
   card's title and description. *)
AddFrame ==
  /\ Len(cards') = Len(cards) + 1
  /\ cards'[Len(cards')].column = "to-learn"
  /\ Range(cards'[Len(cards')].tags) = last'.form.checked
  /\ Len(cards'[Len(cards')].tags) = Cardinality(last'.form.checked)
  /\ \A i \in 1..Len(cards) : cards'[i] = cards[i]

(* C3 as stated: a valid submit in add mode grows the collection by exactly
   1, the new card is the last element, its column is to-learn, its title,
   description and tags are the submitted values, and every earlier card
   keeps its fields and position. *)
C3_AddStoresSubmittedValues ==
  [][ValidAddStep =>
        /\ AddFrame
        /\ cards'[Len(cards')].title = last'.form.title
        /\ cards'[Len(cards')].description = last'.form.description]_vars

(* C3 as amended: the same, the new card's title and description being the
   submitted values with leading and trailing whitespace removed. *)
C3_AddStoresTrimmedValues ==
  [][ValidAddStep =>
        /\ AddFrame
        /\ cards'[Len(cards')].title = Trim(last'.form.title)
        /\ cards'[Len(cards')].description = Trim(last'.form.description)]_vars

(* C3 witness: a padded title was submitted in add mode and the card was
   appended as the tenth card. *)
C3_Witness ==
  /\ last.op = "submit" /\ last.editing = Null /\ Ran("mutate", last)
  /\ last.form.title = <<WS, "Learn Go", WS>>
  /\ Len(cards) = 10
  /\ cards[10].title = <<"Learn Go">>
  /\ cards[10].tags = <<"Front-End", "DevOps">>

(* C4: a submit that fails validation (title empty or whitespace-only, or 3
   or more tags), in add mode and in edit mode alike, leaves the collection,
   the slot and the rendered board unchanged. *)
C4_RejectedSubmitChangesNothing ==
  [][(last'.op = "submit" /\ InvalidForm(last'.form)) =>
        UNCHANGED <<cards, slot, board>>]_vars

(* C4 witness: a submit with three tags checked was handled in edit mode. *)
C4_Witness ==
  /\ last.op = "submit"
  /\ Cardinality(last.form.checked) = 3
  /\ last.editing # Null
  /\ last.steps = <<>>

(* C5: a drop of an existing card onto a valid column changes that card's
   column to the target and nothing else: its other fields, its position,
   every other card and the size of the collection stay. *)
C5_MoveChangesOnlyColumn ==
  [][(/\ last'.op = "drop"
      /\ last'.columnId # Null
      /\ last'.columnId[1] \in ValidColumns
      /\ last'.cardId \in Ids(cards)) =>
        /\ Len(cards') = Len(cards)
        /\ \E i \in 1..Len(cards) :
             /\ cards[i].id = last'.cardId
             /\ cards'[i].column = last'.columnId[1]
             /\ \A k \in CardFields \ {"column"} :
                  Get(cards'[i], k) = Get(cards[i], k)
             /\ \A j \in 1..Len(cards) : j # i => cards'[j] = cards[j]]_vars

(* C5 witness: the seed card 6 was dropped on the blocked column. *)
C5_Witness ==
  /\ last.op = "drop" /\ Ran("mutate", last)
  /\ last.cardId = "6" /\ last.columnId = Defined("blocked")
  /\ cards[6].id = "6" /\ cards[6].column = "blocked"

(* C6: a drop whose target column is not one of the four valid values, or
   whose card id matches no card, changes neither the collection nor the
   slot nor the board, and neither writes nor renders. *)
C6_InvalidMoveIsNoOp ==
  [][(/\ last'.op = "drop"
      /\ \/ last'.columnId = Null
         \/ last'.columnId[1] \notin ValidColumns
         \/ last'.cardId \notin Ids(cards)) =>
        /\ UNCHANGED <<cards, slot, board>>
        /\ ~Ran("save", last') /\ ~Ran("saveFailed", last')
        /\ ~Ran("render", last')]_vars

(* C6 witness: an existing card was dropped on a column named archive. *)
C6_Witness ==
  /\ last.op = "drop"
  /\ last.columnId = Defined("archive")
  /\ last.cardId \in Ids(cards)
  /\ last.steps = <<>>

(* C7: deleteCard(id) with id in the collection reduces the size by exactly
   1, removes only the card with that id and keeps the fields and order of
   the others; deleting again with the same id changes nothing. *)
C7_DeleteRemovesExactlyOne ==
  \A id \in Ids(cards) :
    LET after == RemoveCard(cards, id) IN
      /\ Len(after) = Len(cards) - 1
      /\ \E i \in 1..Len(cards) :
           /\ cards[i].id = id
           /\ after = SubSeq(cards, 1, i - 1) \o SubSeq(cards, i + 1, Len(cards))
      /\ RemoveCard(after, id) = after

(* The step handles a valid submit in edit mode for a card that exists. *)
ValidEditStep ==
  /\ last'.op = "submit"
  /\ last'.editing # Null
  /\ ValidForm(last'.form)
  /\ last'.editing[1] \in Ids(cards)

(* What every edit leaves in place and what it sets, but for the card's
   title, description and due date; i is the position of the edited card. *)
EditFrame(i) ==
  /\ cards[i].id = last'.editing[1]
  /\ cards'[i].id = cards[i].id
  /\ cards'[i].column = cards[i].column
  /\ Range(cards'[i].tags) = last'.form.checked
  /\ Len(cards'[i].tags) = Cardinality(last'.form.checked)
  /\ \A j \in 1..Len(cards) : j # i => cards'[j] = cards[j]

(* The due date a card holds for a submitted date text: none when empty. *)
DueOf(text) == IF text = <<>> THEN Undefined ELSE Defined(text)

(* C8 as stated: a valid submit in edit mode for an existing card sets that
   card's title, description, tags and dueDate to the submitted values and
   changes nothing else: not its id, column or position, not the size of
   the collection, not any other card. *)
C8_EditStoresSubmittedValues ==
  [][ValidEditStep =>
        /\ Len(cards') = Len(cards)
        /\ \E i \in 1..Len(cards) :
             /\ EditFrame(i)
             /\ cards'[i].title = last'.form.title
             /\ cards'[i].description = last'.form.description
             /\ Get(cards'[i], "dueDate") = DueOf(last'.form.due)]_vars

(* C8 as amended: the same, the title, description and due date being the
   submitted values with leading and trailing whitespace removed (an empty
   due date is no due date). *)
C8_EditStoresTrimmedValues ==
  [][ValidEditStep =>
        /\ Len(cards') = Len(cards)
        /\ \E i \in 1..Len(cards) :
             /\ EditFrame(i)
             /\ cards'[i].title = Trim(last'.form.title)
             /\ cards'[i].description = Trim(last'.form.description)
             /\ Get(cards'[i], "dueDate") = DueOf(Trim(last'.form.due))]_vars

(* C8 witness: the seed card 1, in the completed column, was edited with a
   padded title and a due date. *)
C8_Witness ==
  /\ last.op = "submit" /\ last.editing = Defined("1") /\ Ran("mutate", last)
  /\ last.form.title = <<WS, "Learn Go", WS>>
  /\ cards[1].id = "1"
  /\ cards[1].title = <<"Learn Go">>
  /\ cards[1].column = "completed"
  /\ cards[1].dueDate = Defined(<<"2099-01-01">>)

(* C9: after init and after every accepted intent whose write succeeded,
   the slot holds the JSON text of an array that parses to a collection
   equal to the in-memory one in ids, fields and order. *)
C9_SlotMirrorsCollection ==
  Ran("save", last) =>
    /\ slot.kind = "json"
    /\ slot.type = "array"
    /\ SameCards(JSONparse(slot), cards)

(* C9 witness: a card without tags was added and written; in memory its
   dueDate is undefined, in the slot's text it has no dueDate. *)
C9_Witness ==
  /\ last.op = "submit" /\ Ran("save", last)
  /\ Len(cards) = 10
  /\ cards[10].tags = <<>>
  /\ \E i \in 1..Len(cards) :
       "dueDate" \in DOMAIN cards[i] /\ cards[i].dueDate = Undefined
          /\ "dueDate" \notin DOMAIN slot.items[i]

(* C10: a non-empty collection that was saved and is then loaded comes back
   equal in ids, fields and order. *)
C10_SaveLoadRoundTrip ==
  [][(/\ Ran("save", last)
      /\ cards # <<>>
      /\ last'.op = "init"
      /\ Ran("load", last')) => SameCards(cards', cards)]_vars

(* C10 witness: a reload brought back ten cards, the tenth with two tags
   and a due date, the seed cards with one tag and none. *)
C10_Witness ==
  /\ last.op = "init" /\ Ran("load", last)
  /\ nEvents > 0
  /\ Len(cards) = 10
  /\ Len(cards[10].tags) = 2
  /\ Get(cards[10], "dueDate") = Defined(<<"2099-01-01">>)
  /\ Len(cards[1].tags) = 1
  /\ Get(cards[1], "dueDate") = Undefined

(* A slot from which no collection can be read: absent, the empty text, a
   text that does not parse, a value that is no array, or the empty array. *)
Unusable(s) ==
  \/ s.kind \in {"absent", "empty", "malformed"}
  \/ s.kind = "json" /\ s.type # "array"
  \/ s.kind = "json" /\ s.type = "array" /\ s.items = <<>>

(* C11: when the slot is absent, its read throws, its text does not parse,
   or it parses to a non-sequence or to the empty sequence, load returns the
   9-card seed dataset, every card of which has column to-learn or
   completed. *)
C11_FallbackIsSeedInTwoColumns ==
  [][(last'.op = "init" /\ (Ran("loadFailed", last') \/ Unusable(slot))) =>
        /\ Len(cards') = 9
        /\ \A i \in 1..Len(cards') :
             cards'[i].column \in {"to-learn", "completed"}]_vars

(* A stored element that is a card: an object with id and title, a valid
   column and at most 2 tags. *)
CardShaped(o) ==
  /\ o # JsonNull
  /\ {"id", "title", "column"} \subseteq DOMAIN o
  /\ o.column \in ValidColumns
  /\ "tags" \in DOMAIN o => Len(o.tags) <= 2

(* C12: when the slot holds a non-empty sequence with an element that is
   not Card-shaped, load returns the seed dataset and init completes. *)
C12_MalformedRecordsFallBackToSeed ==
  [][(/\ last'.op = "init" /\ Ran("load", last')
      /\ slot.kind = "json" /\ slot.type = "array" /\ slot.items # <<>>
      /\ \E i \in 1..Len(slot.items) : ~CardShaped(slot.items[i])) =>
        /\ cards' = DEFAULT_CARDS
        /\ Ran("render", last')]_vars

(* The intents: submit of the form, confirmed delete, drop. *)
IntentOps == {"submit", "delete", "drop"}

(* The step handles an intent that passes validation: a valid form (in edit
   mode, for a card that exists), a confirmed delete of the open card, or a
   drop of an existing card on a valid column. *)
AcceptedStep ==
  \/ /\ last'.op = "submit"
     /\ ValidForm(last'.form)
     /\ editingCardId # Null => editingCardId[1] \in Ids(cards)
  \/ /\ last'.op = "delete"
     /\ last'.cardId # ""
  \/ /\ last'.op = "drop"
     /\ last'.columnId # Null
     /\ last'.columnId[1] \in ValidColumns
     /\ last'.cardId \in Ids(cards)

(* The step's mutation is in the collection. *)
MutationApplied ==
  /\ last'.op = "submit" /\ editingCardId = Null =>
       /\ Len(cards') = Len(cards) + 1
       /\ cards'[Len(cards')].title = Trim(last'.form.title)
  /\ last'.op = "submit" /\ editingCardId # Null =>
       \E i \in 1..Len(cards') :
         /\ cards'[i].id = editingCardId[1]
         /\ cards'[i].title = Trim(last'.form.title)
         /\ Range(cards'[i].tags) = last'.form.checked
  /\ last'.op = "delete" =>
       /\ last'.cardId \notin Ids(cards')
       /\ Len(cards') < Len(cards)
  /\ last'.op = "drop" =>
       \E i \in 1..Len(cards') :
         /\ cards'[i].id = last'.cardId
         /\ cards'[i].column = last'.columnId[1]

(* A card element shows the card. *)
ElementShows(el, card) ==
  /\ el.cardId = card.id
  /\ el.title = card.title
  /\ el.description = card.description
  /\ el.tags = card.tags
  /\ el.due = Get(card, "dueDate")

(* A column of the board shows exactly the cards of the collection that
   name it, in collection order. *)
ColumnShows(b, cs, col) ==
  LET named == SelectSeq(cs, LAMBDA c : c.column = col) IN
  /\ Len(b[col]) = Len(named)
  /\ \A k \in 1..Len(named) : ElementShows(b[col][k], named[k])

(* C13: when the slot write fails during an accepted intent, the slot keeps
   its previous content, the mutation is applied in memory, the board is
   rendered from the updated collection, and the intent completes (a submit
   or delete closes the modal). *)
C13_WriteFailureIsAbsorbed ==
  [][(AcceptedStep /\ Ran("saveFailed", last')) =>
        /\ slot' = slot
        /\ MutationApplied
        /\ Ran("render", last')
        /\ \A col \in ValidColumns : ColumnShows(board', cards', col)
        /\ last'.op \in {"submit", "delete"} =>
             modalOpen' = FALSE /\ editingCardId' = Null]_vars

(* C13 witness: a drop whose write failed moved the card in memory and on
   the board, while the slot still holds the collection of before. *)
C13_Witness ==
  /\ last.op = "drop" /\ Ran("saveFailed", last)
  /\ slot.kind = "json"
  /\ ~SameCards(JSONparse(slot), cards)
  /\ \E k \in 1..Len(board[last.columnId[1]]) :
       board[last.columnId[1]][k].cardId = last.cardId
  /\ \E i \in 1..Len(cards) :
       cards[i].id = last.cardId /\ cards[i].column = last.columnId[1]

(* The cards the board shows, over all its columns. *)
ShownCount(b) ==
  Len(b["to-learn"]) + Len(b["in-progress"]) + Len(b["blocked"])
    + Len(b["completed"])

(* C14: after init and after every accepted mutation the rendered board
   shows the full collection: every card exactly once, in the column its
   column field names, in collection order, and no card that is not in the
   collection. *)
C14_BoardShowsFullCollection ==
  Ran("render", last) =>
    /\ \A col \in ValidColumns : ColumnShows(board, cards, col)
    /\ ShownCount(board) = Len(cards)

(* C15: an accepted intent mutates, then writes, then renders, in that
   order and all within the one step that handles it: the write (when it
   succeeds) and the render both carry the mutated collection.  A rejected
   intent neither writes nor renders, and changes nothing. *)
C15_StepsInOrder ==
  [][last'.op \in IntentOps =>
       IF AcceptedStep
       THEN /\ Len(last'.steps) >= 3
            /\ SubSeq(last'.steps, 1, 3) \in
                 {<<"mutate", "save", "render">>,
                  <<"mutate", "saveFailed", "render">>}
            /\ MutationApplied
            /\ Ran("save", last') => SameCards(JSONparse(slot'), cards')
            /\ \A col \in ValidColumns : ColumnShows(board', cards', col)
       ELSE /\ ~Ran("save", last') /\ ~Ran("saveFailed", last')
            /\ ~Ran("render", last')
            /\ UNCHANGED <<cards, slot, board>>]_vars

(* C15 witness: an accepted add ran all its steps; the slot and the board
   both hold the card it appended. *)
C15_Witness ==
  /\ last.op = "submit"
  /\ last.steps = <<"mutate", "save", "render", "closeModal">>
  /\ Len(cards) = 10
  /\ Len(JSONparse(slot)) = 10
  /\ \E k \in 1..Len(board["to-learn"]) :
       board["to-learn"][k].cardId = cards[10].id

(* C16: every card of the collection has at most 2 tags. *)
C16_AtMostTwoTags ==
  \A i \in 1..Len(cards) : Len(cards[i].tags) <= 2

(* C16 witness: a form with two checked tags was accepted and its card,
   with exactly those two tags, is in the collection. *)
C16_Witness ==
  /\ last.op = "submit" /\ Ran("mutate", last)
  /\ Cardinality(last.form.checked) = 2
  /\ \E i \in 1..Len(cards) :
       Len(cards[i].tags) = 2 /\ Range(cards[i].tags) = last.form.checked

(* A text with a character that is not whitespace. *)
HasInk(text) == \E k \in 1..Len(text) : text[k] # WS

(* C17: every card of the collection has a title that is non-empty after
   trimming whitespace. *)
C17_TitleNonEmpty ==
  \A i \in 1..Len(cards) : HasInk(cards[i].title)

(* C17 witness: a title submitted with whitespace around it was accepted;
   the card holds it without. *)
C17_Witness ==
  /\ last.op = "submit" /\ Ran("mutate", last)
  /\ Head(last.form.title) = WS
  /\ \E i \in 1..Len(cards) :
       cards[i].title = Trim(last.form.title) /\ Head(cards[i].title) # WS

(* The place of a seed card in the seed dataset, by id; 0 for another id. *)
SeedIndex(id) ==
  IF \E k \in 1..Len(DEFAULT_CARDS) : DEFAULT_CARDS[k].id = id
  THEN CHOOSE k \in 1..Len(DEFAULT_CARDS) : DEFAULT_CARDS[k].id = id
  ELSE 0

(* The surviving seed cards come first, in seed order. *)
SeedsFirstInOrder ==
  \A i, j \in 1..Len(cards) :
    (i < j /\ SeedIndex(cards[j].id) # 0) =>
      /\ SeedIndex(cards[i].id) # 0
      /\ SeedIndex(cards[i].id) < SeedIndex(cards[j].id)

(* as is bs with some elements left out. *)
RECURSIVE IsSubsequence(_, _)
IsSubsequence(as, bs) ==
  IF as = <<>> THEN TRUE
  ELSE IF bs = <<>> THEN FALSE
  ELSE IF Head(as) = Head(bs) THEN IsSubsequence(Tail(as), Tail(bs))
  ELSE IsSubsequence(as, Tail(bs))

(* What the step's intent may do to the order: a move or an edit keeps
   every position, an add keeps the cards there and puts its card last, a
   delete leaves the remaining cards in their order. *)
KeepsOrder ==
  /\ (last'.op = "drop" \/ (last'.op = "submit" /\ editingCardId # Null)) =>
       /\ Len(cards') = Len(cards)
       /\ \A i \in 1..Len(cards) : cards'[i].id = cards[i].id
  /\ (last'.op = "submit" /\ editingCardId = Null) =>
       /\ Len(cards') \in {Len(cards), Len(cards) + 1}
       /\ \A i \in 1..Len(cards) : cards'[i] = cards[i]
  /\ last'.op = "delete" =>
       IsSubsequence(cards', cards)

(* C18: the collection is in insertion order: the surviving seed cards
   first, in seed order, then the added cards in the order they were added;
   no move or edit changes a position and no delete reorders the cards that
   remain. *)
C18_InsertionOrder ==
  /\ []SeedsFirstInOrder
  /\ [][last'.op \in IntentOps => KeepsOrder]_vars

(* C18 witness: the first seed card was deleted; the eight others are in
   seed order. *)
C18_Witness ==
  /\ last.op = "delete" /\ last.cardId = "1"
  /\ Len(cards) = 8
  /\ \A i \in 1..8 : cards[i].id = DEFAULT_CARDS[i + 1].id

(* The local day, counted from 1970-01-01, that an instant falls in. *)
LocalDay(instant, offset) == (instant + offset) \div HoursPerDay

(* The label the rules give for n days until due. *)
LabelFor(n) ==
  IF n > 1 THEN "Due in " \o ToString(n) \o " days"
  ELSE IF n = 1 THEN "Due in 1 day"
  ELSE IF n = 0 THEN "Due today"
  ELSE IF n = -1 THEN "1 day overdue"
  ELSE ToString(-n) \o " days overdue"

(* The text is a valid ISO calendar date. *)
ValidDue(text) == Len(text) = 1 /\ text[1] \in DOMAIN ISODays

(* C19: for a valid date d the label is the one the rules give for the
   number of calendar days from today's local date to d, at any time of
   day and any UTC offset; for an empty or invalid text it is empty. *)
C19_LabelCountsLocalDays ==
  \A k \in 1..Len(board["to-learn"]) :
    LET el == board["to-learn"][k]
        text == IF el.due = Undefined THEN <<>> ELSE el.due[1]
    IN IF ValidDue(text)
       THEN el.dueLabel =
              LabelFor(ISODays[text[1]] - LocalDay(last.now, last.offset))
       ELSE el.dueLabel = ""

(* C20: a rendered card is marked overdue exactly when it has a valid due
   date strictly before today's local calendar day. *)
C20_OverdueIffBeforeLocalToday ==
  \A k \in 1..Len(board["to-learn"]) :
    LET el == board["to-learn"][k]
        text == IF el.due = Undefined THEN <<>> ELSE el.due[1]
    IN el.overdue <=>
         /\ ValidDue(text)
         /\ ISODays[text[1]] < LocalDay(last.now, last.offset)

(* C21: a submit in edit mode never changes the number of cards: it
   changes at most the one card with the edited id, and when no card has
   that id it mutates, writes and renders nothing. *)
C21_EditSubmitNeverAdds ==
  [][(last'.op = "submit" /\ editingCardId # Null) =>
        /\ Len(cards') = Len(cards)
        /\ IF editingCardId[1] \in Ids(cards)
           THEN \E i \in 1..Len(cards) :
                  /\ cards[i].id = editingCardId[1]
                  /\ \A j \in 1..Len(cards) : j # i => cards'[j] = cards[j]
           ELSE /\ UNCHANGED <<cards, slot, board>>
                /\ ~Ran("mutate", last') /\ ~Ran("save", last')
                /\ ~Ran("saveFailed", last') /\ ~Ran("render", last')]_vars

(* C21 witness: a valid submit in edit mode changed the title of the card
   and left nine cards. *)
C21_Witness ==
  /\ last.op = "submit" /\ last.editing # Null
  /\ Ran("mutate", last)
  /\ Len(cards) = 9
  /\ \E i \in 1..Len(cards) :
       /\ cards[i].id = last.editing[1]
       /\ cards[i].title = Trim(last.form.title)
       /\ cards[i].title # DEFAULT_CARDS[i].title

(* editingCardId is null or the id of a card of the collection, and null
   whenever the modal is closed. *)
EditingIdIsLive ==
  /\ editingCardId = Null \/ editingCardId[1] \in Ids(cards)
  /\ ~modalOpen => editingCardId = Null

(* C22: editingCardId is always null or the id of a card in the collection,
   and null whenever the modal is closed; openModal, closeModal and a
   delete from the modal leave it null, and a valid submit that follows the
   opening of the add modal adds a card. *)
C22_EditingIdNullOrLive ==
  /\ []EditingIdIsLive
  /\ [][(\/ last'.op \in {"openModal", "closeModal"}
         \/ last'.op = "delete" /\ last'.cardId # "") =>
           editingCardId' = Null]_vars
  /\ [][(last.op = "openModal" /\ last'.op = "submit"
           /\ ValidForm(last'.form)) =>
           Len(cards') = Len(cards) + 1]_vars

(* C22 witness: a card was opened for edit and deleted from the modal; its
   id is gone from the collection, the modal is closed and editingCardId is
   null. *)
C22_Witness ==
  /\ last.op = "delete" /\ last.cardId # ""
  /\ last.cardId \notin Ids(cards)
  /\ ~modalOpen
  /\ editingCardId = Null

(* At most 2 boxes are checked, an unchecked box is disabled exactly when
   2 are checked, and a checked box is never disabled. *)
TagBoxesCapped ==
  /\ Cardinality(CheckedBoxes(tagBoxes)) <= 2
  /\ \A t \in DOMAIN tagBoxes :
       IF tagBoxes[t].checked THEN ~tagBoxes[t].disabled
       ELSE tagBoxes[t].disabled <=> Cardinality(CheckedBoxes(tagBoxes)) = 2

(* C23: from an opened add modal, or an edit modal opened on a card with
   at most 2 tags, after any sequence of changes of enabled checkboxes at
   most 2 boxes are checked and an unchecked box is disabled exactly when 2
   are checked; so a submit of the modal carries at most 2 tags, and so
   does every card it stores. *)
C23_CheckboxesCapTags ==
  /\ []TagBoxesCapped
  /\ [][last'.op = "submit" =>
          /\ Cardinality(last'.form.checked) <= 2
          /\ \A i \in 1..Len(cards') : Len(cards'[i].tags) <= 2]_vars

(* C23 witness: after a change two boxes are checked and the third is
   disabled. *)
C23_Witness ==
  /\ modalOpen
  /\ last.op = "tagChange"
  /\ Cardinality(CheckedBoxes(tagBoxes)) = 2
  /\ \E t \in DOMAIN tagBoxes :
       ~tagBoxes[t].checked /\ tagBoxes[t].disabled

(* The slot does not hold the collection: a write failed since the
   collection last changed. *)
SlotStale ==
  \/ slot.kind # "json"
  \/ ~SameCards(JSONparse(slot), cards)

(* C24: when the write of an accepted intent succeeds after an earlier
   write failed, the slot holds the whole in-memory collection, the effect
   of the intent whose write failed included. *)
C24_LaterWriteCatchesUp ==
  [][(AcceptedStep /\ Ran("save", last') /\ SlotStale) =>
        /\ slot'.kind = "json"
        /\ SameCards(JSONparse(slot'), cards')
        /\ MutationApplied]_vars

(* C24 witness: two intents, an add and then a move of the first seed
   card, were handled; the last write succeeded and the slot holds both
   effects, whether or not the add's own write went through. *)
C24_Witness ==
  /\ nEvents = 2
  /\ last.op = "drop" /\ Ran("save", last) /\ last.cardId = "1"
  /\ Len(cards) = 10
  /\ Len(JSONparse(slot)) = 10
  /\ JSONparse(slot)[1].column = last.columnId[1]
  /\ SameCards(JSONparse(slot), cards)

(* C25: when a session has deleted every card and the slot holds the
   empty sequence, the next init loads the 9-card seed dataset, renders it,
   and (its write succeeding) writes it back to the slot. *)
C25_EmptyBoardRestartsFromSeed ==
  [][(/\ last'.op = "init" /\ Ran("load", last')
      /\ cards = <<>>
      /\ slot = JSONstringify(<<>>)) =>
        /\ cards' = DEFAULT_CARDS
        /\ board' = renderBoard(DEFAULT_CARDS)
        /\ Ran("save", last') => slot' = JSONstringify(DEFAULT_CARDS)]_vars

(* C25 witness: the one card of the board was opened and deleted, and the
   page was loaded again: the read succeeded, yet the collection and the
   slot hold the seed dataset. *)
C25_Witness ==
  /\ nEvents = 3
  /\ last.op = "init" /\ Ran("load", last) /\ Ran("save", last)
  /\ cards = DEFAULT_CARDS
  /\ slot = JSONstringify(DEFAULT_CARDS)
  /\ Len(board["completed"]) = 4

====
